---- MODULE Spec2Model ----
(***************************************************************************)
(* Transfer pipeline of the link-to-attachment converter:                  *)
(*   UrlDetector (classification of a URL),                                *)
(*   FileDownloader (bounded download pool with retry and cancellation),   *)
(*   AttachmentUploader (upload requests with retry),                      *)
(*   LinkConversionService (scan -> download -> upload -> results).        *)
(*                                                                         *)
(* The program runs on one JavaScript event loop.  One action of this      *)
(* model is one macrotask: a call from outside (downloadFiles, cancel,     *)
(* startConversion), a network completion (fetch, reader.read, axios.post, *)
(* a host query) or a timer (the retry backoff), together with every       *)
(* promise continuation (microtask) that it makes runnable.                *)
(***************************************************************************)
EXTENDS Integers, Sequences, FiniteSets, TLC

\* ------------------------------------------------------------------ bounds
MaxK == 2          \* largest maxConcurrency tried by the pool specification
MaxRetry == 1      \* largest retryCount tried by the pool specification
MaxJobs == 3       \* URLs submitted to the pool in one behaviour
MaxCalls == 2      \* downloadFiles calls in one behaviour (they overlap)
MaxCancels == 1    \* cancel calls in one behaviour
MaxFaults == 2     \* failed requests in one run of the service
SizeLimitMB == 1   \* the maxFileSize the configurations use, in MB
MaxChunkMB == 2    \* largest chunk a read delivers, in MB
MaxTextUrls == 2   \* URL texts in one cell given to extractUrls on its own
MaxValues == 4     \* length of the lists given to the ranking functions
MaxValue == 2      \* the numbers in these lists are 0..MaxValue
MaxRows == 201     \* rows of the views the scan is paginated over
MaxFaultsOneRow == 3  \* failed requests in a run on a view of one row

BytesPerMB == 1024 * 1024

\* ------------------------------------------------------------ string model
\* A message is the sequence of its words.  String.includes(phrase) is the
\* search for the phrase's words as a contiguous run, case-sensitively: the
\* messages below hold every searched word as a whole word or not at all.
Includes(msg, phrase) ==
  \E i \in 0..(Len(msg) - Len(phrase)) :
    \A k \in 1..Len(phrase) : msg[i + k] = phrase[k]

NoError == << >>
ErrInvalidUrl == <<"Invalid", "URL", "format">>
ErrFileType == <<"File", "type", "not", "allowed">>
ErrSizeDeclared == <<"File", "size", "exceeds", "limit">>
ErrSizeStream == <<"File", "size", "exceeds", "limit", "during", "download">>
ErrHttp(status) ==
  CASE status = 404 -> <<"HTTP", "404:", "Not", "Found">>
    [] status = 500 -> <<"HTTP", "500:", "Internal", "Server", "Error">>
    [] status = 503 -> <<"HTTP", "503:", "Service", "Unavailable">>
    [] status = 504 -> <<"HTTP", "504:", "Gateway", "Timeout">>
    [] OTHER -> <<"HTTP", "error">>
\* What fetch / reader.read reject with when the network fails.
ErrFailedToFetch == <<"Failed", "to", "fetch">>
\* A rejection whose message holds none of the words shouldRetry looks for.
ErrLoadFailed == <<"Load", "failed">>
NetworkErrors == {ErrFailedToFetch, ErrLoadFailed}
\* What fetch / reader.read reject with when their signal is aborted.
AbortErrorMessage == <<"signal", "is", "aborted", "without", "reason">>
SizeErrors == {ErrSizeDeclared, ErrSizeStream}
Cancelled == <<"cancelled">>

\* --------------------------------------------------------------- URL model
\* A URL string is modelled by the parts that new URL() splits it into: the
\* scheme ("" when the text has none), whether the text starts with "www.",
\* and the last path segment split at its dots, in the case it was written.
UrlJpg == [scheme |-> "http", www |-> FALSE, file |-> <<"a", "jpg">>]
UrlPng == [scheme |-> "https", www |-> FALSE, file |-> <<"b", "PNG">>]
UrlExe == [scheme |-> "http", www |-> FALSE, file |-> <<"setup", "EXE">>]
UrlZip == [scheme |-> "", www |-> TRUE, file |-> <<"c", "tar", "zip">>]
UrlPage == [scheme |-> "https", www |-> FALSE, file |-> <<"page">>]
UrlBad == [scheme |-> "ftp", www |-> FALSE, file |-> <<"d", "jpg">>]
Urls == {UrlJpg, UrlPng, UrlExe, UrlZip, UrlPage, UrlBad}
\* A URL written with its scheme and "www.": http://www.host/e.jpg
UrlWww == [scheme |-> "http", www |-> TRUE, file |-> <<"e", "jpg">>]

ToLowerCase(s) ==
  CASE s = "EXE" -> "exe" [] s = "PNG" -> "png" [] s = "JPG" -> "jpg" [] OTHER -> s

DANGEROUS_FILE_EXTENSIONS ==
  {"exe", "bat", "cmd", "com", "pif", "scr", "vbs", "js", "jar",
   "app", "deb", "pkg", "dmg", "rpm", "msi", "apk", "ipa",
   "ps1", "sh", "bash", "zsh", "fish", "py", "pl", "rb",
   "ms", "mde", "docm", "dotm", "xlsm", "xltm", "xlam", "pptm", "potm",
   "cpl", "msp", "wsf", "vbscript"}

FILE_TYPE_CATEGORIES == {"image", "document", "media", "archive", "other"}

FILE_TYPE_EXTENSIONS ==
  [c \in FILE_TYPE_CATEGORIES |->
     CASE c = "image" ->
            {"jpg", "jpeg", "png", "gif", "webp", "svg", "bmp", "ico", "tiff", "tif"}
       [] c = "document" ->
            {"pdf", "doc", "docx", "xls", "xlsx", "ppt", "pptx", "txt", "rtf", "odt",
             "ods", "odp", "csv", "json", "xml", "html", "htm", "md", "tex"}
       [] c = "media" ->
            {"mp4", "avi", "mov", "wmv", "flv", "webm", "mkv", "mp3", "wav", "ogg",
             "flac", "aac", "m4a", "wma", "mid", "midi"}
       [] c = "archive" ->
            {"zip", "rar", "7z", "tar", "gz", "bz2", "xz", "lzma", "cab", "iso", "dmg"}
       [] OTHER -> {}]

\* UrlDetector.normalizeUrl: a text starting with "www." gets https://.
normalizeUrl(u) ==
  IF u.www /\ u.scheme = "" THEN [u EXCEPT !.scheme = "https"] ELSE u

\* UrlDetector.isValidUrl: parses, and the protocol is http: or https:.
isValidUrl(u) == u.scheme \in {"http", "https"}

NoFileInfo == [extension |-> "", isDangerous |-> FALSE, none |-> TRUE]

\* UrlDetector.extractFileInfo: the extension is what follows the last dot of
\* the last path segment, lower-cased; null when the segment has no dot.
extractFileInfo(u) ==
  IF Len(u.file) < 2
  THEN NoFileInfo
  ELSE LET extension == ToLowerCase(u.file[Len(u.file)])
       IN [extension |-> extension,
           isDangerous |-> extension \in DANGEROUS_FILE_EXTENSIONS,
           none |-> FALSE]


\* ------------------------------------------------------------------- state
VARIABLES
  config,            \* FileDownloader.config (IDownloadConfig)
  jobs,              \* one record per submitted URL: its {url, resolve} entry
                     \* and the downloadFile call chain working on it
  downloadQueue,     \* FileDownloader.downloadQueue (indices into jobs)
  currentDownloads,  \* FileDownloader.currentDownloads
  activeDownloads,   \* FileDownloader.activeDownloads: url -> AbortController
  calls,             \* downloadFiles calls made so far
  cancels,           \* cancel calls made so far
  faults,            \* requests that failed so far in a run of the service
  converterConfig,   \* IConversionServiceConfig.converterConfig
  table,             \* the rows of the view, as the host platform returns them
  pc,                \* where startConversion stands
  isConverting,      \* LinkConversionService.isConverting
  scan,              \* scanUrls in progress: its skip and its urlRecords
  hasServices,       \* this.downloader and this.uploader are set
  urlRecords,        \* the task list scanUrls returned to startConversion
  downloadResults,   \* what downloadFiles returned to startConversion
  uploads,           \* one record per uploadFromUrl call chain
  activeUploads,     \* AttachmentUploader.activeUploads: url -> AbortController
  uploadQueue,       \* AttachmentUploader.uploadQueue
  currentUploads,    \* AttachmentUploader.currentUploads
  attachments,       \* host platform: recordId -> urls attached, in order
  results,           \* ILinkConversionResult.results of the settled run
  onErrorCalls,      \* calls of the service's onError callback
  progress,          \* the IConversionProgress values passed to onProgress
  rejection,         \* the error startConversion threw, and where it arose
  lastIndex,         \* lastIndex of the two regular expressions of URL_PATTERNS
  values,            \* the argument of a ranking function
  ranks,             \* the array a ranking function returned
  cancelledAt,       \* history: pc at the time of cancelConversion ("" = never)
  requestsAtCancel   \* history: fetch and post requests issued before it

poolVars == <<config, jobs, downloadQueue, currentDownloads, activeDownloads,
              calls, cancels, faults>>

svcVars == <<converterConfig, table, pc, isConverting, hasServices, scan, urlRecords,
             downloadResults, uploads, activeUploads, uploadQueue, currentUploads,
             attachments, results, onErrorCalls, progress, rejection,
             cancelledAt, requestsAtCancel>>

vars == <<poolVars, svcVars, lastIndex, values, ranks>>

\* The sum of the first n values of f.
RECURSIVE SumOf(_, _)
SumOf(f, n) == IF n = 0 THEN 0 ELSE f[n] + SumOf(f, n - 1)

\* An AbortController is named by the job and the attempt that created it.
NoController == <<0, 0>>

\* The mutable state as one value W, for the operators below, which map a
\* state to the state after a piece of code has run.
World ==
  [jobs |-> jobs, queue |-> downloadQueue, cur |-> currentDownloads,
   active |-> activeDownloads, pc |-> pc, isConverting |-> isConverting,
   hasServices |-> hasServices, scan |-> scan, urlRecords |-> urlRecords,
   downloadResults |-> downloadResults, uploads |-> uploads,
   activeUploads |-> activeUploads, uploadQueue |-> uploadQueue,
   currentUploads |-> currentUploads, attachments |-> attachments,
   results |-> results, onErrorCalls |-> onErrorCalls,
   progress |-> progress, rejection |-> rejection,
   cancelledAt |-> cancelledAt, requestsAtCancel |-> requestsAtCancel]

Become(W) ==
  /\ jobs' = W.jobs
  /\ downloadQueue' = W.queue
  /\ currentDownloads' = W.cur
  /\ activeDownloads' = W.active
  /\ pc' = W.pc
  /\ isConverting' = W.isConverting
  /\ hasServices' = W.hasServices
  /\ scan' = W.scan
  /\ urlRecords' = W.urlRecords
  /\ downloadResults' = W.downloadResults
  /\ uploads' = W.uploads
  /\ activeUploads' = W.activeUploads
  /\ uploadQueue' = W.uploadQueue
  /\ currentUploads' = W.currentUploads
  /\ attachments' = W.attachments
  /\ results' = W.results
  /\ onErrorCalls' = W.onErrorCalls
  /\ progress' = W.progress
  /\ rejection' = W.rejection
  /\ cancelledAt' = W.cancelledAt
  /\ requestsAtCancel' = W.requestsAtCancel

\* Job states: "queued" (in downloadQueue, or dropped from it by a cancel),
\* "fetching" (await fetch), "reading" (await reader.read), "backoff" (await
\* delay), "settled" (downloadFile returned, processQueue not yet resumed),
\* "done" (resolve(result) called).
NewJob(url, call) ==
  [url |-> url, call |-> call, st |-> "queued", retryCount |-> 0,
   fetches |-> 0, loaded |-> 0, success |-> FALSE, error |-> NoError,
   fileSize |-> 0,
   \* history, not program state:
   lastAttemptError |-> NoError, sizeErrorAt |-> 0,
   cancelledIn |-> "none", fetchesAtCancel |-> 0,
   delays |-> << >>]

\* Math.pow(2, n)
RECURSIVE Pow2(_)
Pow2(n) == IF n = 0 THEN 1 ELSE 2 * Pow2(n - 1)

\* A backoff that waits the base delay before every retry.
backoffDelay_Fixed(retryDelay, retryCount) == retryDelay

\* The time both pools wait before the retry that follows attempt retryCount:
\* "this.config.retryDelay * Math.pow(2, retryCount)".
backoffDelay(retryDelay, retryCount) == retryDelay * Pow2(retryCount)

\* ----------------------------------------------------------- FileDownloader
\* An isFileTypeAllowed that allows every file.
isFileTypeAllowed_AllowAll(fileInfo) == TRUE

\* FileDownloader.isFileTypeAllowed
isFileTypeAllowed(fileInfo) ==
  IF config.allowAllFileTypes THEN TRUE
  ELSE IF fileInfo.none \/ fileInfo.extension = "" THEN TRUE
  ELSE IF fileInfo.isDangerous THEN FALSE
  ELSE \E fileType \in config.allowedFileTypes :
         fileInfo.extension \in FILE_TYPE_EXTENSIONS[fileType]

\* A shouldRetry that retries every error.
shouldRetry_Always(message) == TRUE

\* FileDownloader.shouldRetry
shouldRetry(message) ==
  \/ Includes(message, <<"fetch">>)
  \/ Includes(message, <<"timeout">>)
  \/ Includes(message, <<"network">>)
  \/ Includes(message, <<"Failed", "to", "fetch">>)

\* The retry condition of downloadFile's catch block.
RetryAllowed_OffByOne(retryCount, message) ==
  retryCount <= config.retryCount /\ shouldRetry(message)

RetryAllowed(retryCount, message) ==
  retryCount < config.retryCount /\ shouldRetry(message)

\* The admission test of processQueue.
CanStart_OffByOne(cur, queued) ==
  ~(cur > config.maxConcurrency \/ queued = 0)

CanStart(cur, queued) ==
  ~(cur >= config.maxConcurrency \/ queued = 0)

\* The checks downloadFile makes before it fetches; NoError when they pass.
Precheck(url) ==
  IF ~isValidUrl(normalizeUrl(url)) THEN ErrInvalidUrl
  ELSE IF ~isFileTypeAllowed(extractFileInfo(normalizeUrl(url))) THEN ErrFileType
  ELSE NoError

\* downloadFile returns its result: the finally block deletes the url's entry
\* of activeDownloads, whichever attempt or job put it there.
Settle(P, j, success, error, fileSize) ==
  [P EXCEPT !.jobs[j].st = "settled",
            !.jobs[j].success = success,
            !.jobs[j].error = error,
            !.jobs[j].fileSize = fileSize,
            !.active[P.jobs[j].url] = NoController]

\* The catch block of downloadFile: retry after a delay, or return the failure.
Fail(P, j, message) ==
  IF RetryAllowed(P.jobs[j].retryCount, message)
  THEN [P EXCEPT !.jobs[j].st = "backoff", !.jobs[j].error = message,
                 !.jobs[j].delays =
                   Append(@, backoffDelay(config.retryDelay, P.jobs[j].retryCount))]
  ELSE Settle(P, j, FALSE, message, 0)

\* downloadFile(url, retryCount) up to its first await.
StartDownload(P, j, retryCount) ==
  LET url == P.jobs[j].url
      P1 == [P EXCEPT !.jobs[j].retryCount = retryCount]
  IN IF Precheck(url) # NoError
     THEN Fail(P1, j, Precheck(url))
     ELSE [P1 EXCEPT !.jobs[j].st = "fetching",
                     !.jobs[j].fetches = @ + 1,
                     !.jobs[j].loaded = 0,
                     !.active[url] = <<j, retryCount>>]

\* The timer of the backoff fires: "return this.downloadFile(url, retryCount +
\* 1)" runs the next attempt up to its fetch, and then the finally block of the
\* attempt that failed deletes the url's entry of activeDownloads.
RetryDownload(P, j) ==
  LET P1 == StartDownload(P, j, P.jobs[j].retryCount + 1)
  IN [P1 EXCEPT !.active[P.jobs[j].url] = NoController]

\* FileDownloader.processQueue up to its await.
processQueue(P) ==
  IF ~CanStart(P.cur, Len(P.queue))
  THEN P
  ELSE StartDownload([P EXCEPT !.queue = Tail(@), !.cur = @ + 1], Head(P.queue), 0)

\* A processQueue whose finally block does not call processQueue again.
Resume_NoRestart(P, j) ==
  [P EXCEPT !.jobs[j].st = "done", !.cur = @ - 1]

\* processQueue after its await: resolve(result), currentDownloads--, and
\* processQueue() again.
Resume(P, j) ==
  processQueue([P EXCEPT !.jobs[j].st = "done", !.cur = @ - 1])

\* Run the continuations of every settled download, oldest job first.
RECURSIVE Pump(_)
Pump(P) ==
  LET settled == {j \in 1..Len(P.jobs) : P.jobs[j].st = "settled"}
  IN IF settled = {} THEN P
     ELSE Pump(Resume(P, CHOOSE j \in settled : \A k \in settled : j <= k))

\* FileDownloader.downloadFiles up to its await: each url is pushed and
\* processQueue is called after each push.
RECURSIVE downloadFiles(_, _, _)
downloadFiles(P, urls, call) ==
  IF urls = << >> THEN P
  ELSE LET j == Len(P.jobs) + 1
           P1 == [P EXCEPT !.jobs = Append(@, NewJob(Head(urls), call)),
                           !.queue = Append(@, j)]
       IN downloadFiles(processQueue(P1), Tail(urls), call)

\* The controllers cancelAllDownloads aborts that belong to a request still
\* pending: abort() makes the pending fetch or read reject.
Aborted(P, urlSet) ==
  {j \in 1..Len(P.jobs) :
     /\ P.jobs[j].st \in {"fetching", "reading"}
     /\ P.jobs[j].url \in urlSet
     /\ P.active[P.jobs[j].url] = <<j, P.jobs[j].retryCount>>}

RECURSIVE RejectAborted(_, _)
RejectAborted(P, js) ==
  IF js = {} THEN P
  ELSE LET j == CHOOSE x \in js : \A y \in js : x <= y
       IN RejectAborted(Fail(P, j, AbortErrorMessage), js \ {j})

\* FileDownloader.cancelAllDownloads, and the rejections it causes.
cancelAllDownloads(P) ==
  LET hit == Aborted(P, Urls)
      P1 == [P EXCEPT !.active = [u \in Urls |-> NoController],
                      !.queue = << >>]
  IN RejectAborted(P1, hit)

\* FileDownloader.cancelDownload, and the rejection it causes.
cancelDownload(P, url) ==
  LET hit == Aborted(P, {url})
      P1 == [P EXCEPT !.active[url] = NoController]
  IN RejectAborted(P1, hit)



\* ------------------------------------------------------- AttachmentUploader
UploadMaxConcurrency == 2
UploadRetryCount == 3
DownloadRetryCount == 3
DownloadRetryDelay == 1000
UploadRetryDelay == 2000
Take == 100

\* The IUploadConfig that initializeServices builds.
uploaderConfig ==
  [maxConcurrency |-> UploadMaxConcurrency, retryCount |-> UploadRetryCount,
   retryDelay |-> UploadRetryDelay]

ErrNoResponseData == <<"Upload", "failed:", "No", "response", "data">>
ErrStatus503 == <<"Request", "failed", "with", "status", "code", "503">>
ErrStatus404 == <<"Request", "failed", "with", "status", "code", "404">>
ErrStatus501 == <<"Request", "failed", "with", "status", "code", "501">>
ErrAxiosTimeout == <<"timeout", "of", "60000ms", "exceeded">>
ErrAxiosNetwork == <<"Network", "Error">>
UploadErrors ==
  {ErrStatus503, ErrStatus404, ErrStatus501, ErrAxiosTimeout, ErrAxiosNetwork}

NoAttachment == <<"", 0>>

\* AttachmentUploader.shouldRetry
uploadShouldRetry(message) ==
  \/ Includes(message, <<"timeout">>)
  \/ Includes(message, <<"network">>)
  \/ Includes(message, <<"fetch">>)
  \/ Includes(message, <<"connection">>)
  \/ Includes(message, <<"500">>)
  \/ Includes(message, <<"502">>)
  \/ Includes(message, <<"503">>)
  \/ Includes(message, <<"504">>)

\* uploadFromUrl returns its result; the finally block deletes the url's entry.
UploadSettle(W, k, success, error, attachmentId) ==
  [W EXCEPT !.uploads[k].st = "done",
            !.uploads[k].success = success,
            !.uploads[k].error = error,
            !.uploads[k].attachmentId = attachmentId,
            !.activeUploads[W.uploads[k].url] = NoController]

\* The catch block of uploadFromUrl.
UploadFail(W, k, message) ==
  IF W.uploads[k].retryCount < uploaderConfig.retryCount /\ uploadShouldRetry(message)
  THEN [W EXCEPT !.uploads[k].st = "backoff", !.uploads[k].error = message,
                 !.uploads[k].delays =
                   Append(@, backoffDelay(uploaderConfig.retryDelay,
                                          W.uploads[k].retryCount))]
  ELSE UploadSettle(W, k, FALSE, message, NoAttachment)

\* uploadFromUrl(url, ..., recordId, fieldId, 0) up to its await of axios.post,
\* as upload number Len(W.uploads) + 1.  task is history: the position in
\* downloadResults of the download this upload was made for.
uploadFromUrl(W, url, recordId, task) ==
  LET k == Len(W.uploads) + 1
  IN [W EXCEPT !.uploads = Append(@,
                  [url |-> url, recordId |-> recordId, st |-> "posting",
                   retryCount |-> 0, posts |-> 1, success |-> FALSE,
                   error |-> NoError, attachmentId |-> NoAttachment,
                   task |-> task, okAtCancel |-> FALSE, delays |-> << >>]),
               !.activeUploads[url] = <<k, 0>>]

\* The timer of an upload's backoff fires: the next attempt posts, and the
\* finally block of the failed attempt deletes the url's entry.
UploadRetry(W, k) ==
  [W EXCEPT !.uploads[k].st = "posting",
            !.uploads[k].retryCount = @ + 1,
            !.uploads[k].posts = @ + 1,
            !.activeUploads[W.uploads[k].url] = NoController]

\* AttachmentUploader.cancelAllUploads: axios.post was given no signal, so
\* abort() reaches no request.
cancelAllUploads(W) ==
  [W EXCEPT !.activeUploads = [u \in Urls |-> NoController],
            !.uploadQueue = << >>]

\* ---------------------------------------------------- LinkConversionService
FieldId == "fldUrl"

\* What scanUrls throws for every failure of a host query.
ErrScan == <<"Failed", "to", "scan", "URLs", "in", "table", "records">>
\* What uploadAttachments throws when no scanned record holds a download's url.
ErrMapping == <<"Failed", "to", "find", "record", "mapping", "for", "URL:">>

\* startConversion has not thrown.
NoRejection == [at |-> "", message |-> NoError]

\* Promise.all of FileDownloader.downloadFiles: every url's promise resolved.
DownloadsSettled_Any(W) ==
  \E j \in 1..Len(W.jobs) : W.jobs[j].st = "done"

DownloadsSettled(W) ==
  \A j \in 1..Len(W.jobs) : W.jobs[j].st = "done"

\* LinkConversionService.updateProgress: onProgress receives the stage and
\* totalUrls.  unsettled and requests are history: the downloads that had not
\* resolved, and the requests issued, when the stage was reported.
updateProgress(W, stage, totalUrls) ==
  [W EXCEPT !.progress = Append(@,
     [stage |-> stage, totalUrls |-> totalUrls,
      unsettled |-> Cardinality({j \in 1..Len(W.jobs) : W.jobs[j].st # "done"}),
      fetches |-> SumOf([j \in 1..Len(W.jobs) |-> W.jobs[j].fetches], Len(W.jobs))])]

\* UrlDetector.extractUrls on a cell, given as the sequence of the URL texts
\* it holds: every match of the first pattern (http:// or https://), then every
\* match of the second pattern ("www." anywhere, also inside a match of the
\* first), cleaned by prepending https://, each kept when isValidUrl.
RECURSIVE Pattern1(_)
Pattern1(cell) ==
  IF cell = << >> THEN << >>
  ELSE (IF Head(cell).scheme \in {"http", "https"} THEN <<Head(cell)>> ELSE << >>)
       \o Pattern1(Tail(cell))

RECURSIVE Pattern2(_)
Pattern2(cell) ==
  IF cell = << >> THEN << >>
  ELSE (IF Head(cell).www
        THEN <<normalizeUrl([Head(cell) EXCEPT !.scheme = ""])>>
        ELSE << >>)
       \o Pattern2(Tail(cell))

\* The texts of the cell that pattern.exec can still match when the pattern's
\* lastIndex stands at the end of text number from (0: the start of the cell).
\* Positions in a cell are counted in texts.
From(cell, from) ==
  IF from >= Len(cell) THEN << >> ELSE SubSeq(cell, from + 1, Len(cell))

\* extractUrls when the two patterns stand at li: each exec loop starts at
\* its pattern's lastIndex and ends with a failed exec, which resets it to 0.
extractUrlsAt(cell, li) ==
  SelectSeq(Pattern1(From(cell, li[1])) \o Pattern2(From(cell, li[2])), isValidUrl)

extractUrls(cell) == extractUrlsAt(cell, <<0, 0>>)

\* A text that URL_PATTERNS[0] and URL_PATTERNS[1] match.
IsPattern1(u) == u.scheme \in {"http", "https"}

IsPattern2(u) == u.www

\* The end of the first match of pattern 1 or 2 in the cell, 0 when it has
\* none.
FirstMatch(cell, pattern) ==
  LET hits == {i \in 1..Len(cell) :
                 IF pattern = 1 THEN IsPattern1(cell[i]) ELSE IsPattern2(cell[i])}
  IN IF hits = {} THEN 0 ELSE CHOOSE i \in hits : \A h \in hits : i <= h

\* UrlDetector.containsUrl: the lastIndex values it leaves.  URL_PATTERNS.some
\* resets a pattern's lastIndex, tests it, and stops at the first pattern that
\* matches; a successful test leaves lastIndex at the end of its match, a
\* failed one at 0.
containsUrl(cell, li) ==
  IF cell = << >> THEN li
  ELSE IF FirstMatch(cell, 1) # 0 THEN <<FirstMatch(cell, 1), li[2]>>
  ELSE <<0, FirstMatch(cell, 2)>>

\* The urlRecords one record contributes (one selected field).
RECURSIVE RecordsOf(_, _)
RecordsOf(recordId, matches) ==
  IF matches = << >> THEN << >>
  ELSE <<[recordId |-> recordId, fieldId |-> FieldId, url |-> Head(matches)]>>
       \o RecordsOf(recordId, Tail(matches))

\* The scan loop over a page of records: the urlRecords of its records, in
\* record order (those of the first half of the page, then of the second).
RECURSIVE ScanPage(_)
ScanPage(records) ==
  IF records = << >> THEN << >>
  ELSE IF Len(records) = 1
  THEN RecordsOf(records[1].id, extractUrls(records[1].cell))
  ELSE LET half == Len(records) \div 2
       IN ScanPage(SubSeq(records, 1, half))
            \o ScanPage(SubSeq(records, half + 1, Len(records)))

\* The scan loop over a page when the patterns stand at li on entry: the first
\* cell that holds a text is matched from li, the cells after it from 0.
RECURSIVE ScanPageAt(_, _)
ScanPageAt(records, li) ==
  IF records = << >> THEN << >>
  ELSE IF Head(records).cell = << >> THEN ScanPageAt(Tail(records), li)
  ELSE RecordsOf(Head(records).id, extractUrlsAt(Head(records).cell, li))
       \o ScanPageAt(Tail(records), <<0, 0>>)

\* The page getRecords returns for skip and take.
Page(skip) ==
  SubSeq(table, skip + 1, IF skip + Take < Len(table) THEN skip + Take ELSE Len(table))

\* startConversion returns: its finally block clears isConverting and cleans up.
Resolve(W, rs) ==
  [W EXCEPT !.pc = "resolved", !.results = rs, !.isConverting = FALSE,
            !.hasServices = FALSE]

\* startConversion throws: onError is called with the message, then the
\* finally block runs.
Reject_KeepsConverting(W, message) ==
  [W EXCEPT !.pc = "rejected", !.onErrorCalls = @ + 1,
            !.rejection = [at |-> W.pc, message |-> message]]

Reject(W, message) ==
  [W EXCEPT !.pc = "rejected", !.onErrorCalls = @ + 1, !.isConverting = FALSE,
            !.hasServices = FALSE,
            !.rejection = [at |-> W.pc, message |-> message]]

\* One entry of uploadResults, as generateFinalResults reads it.
UploadResultOf(up) ==
  [success |-> up.success, error |-> up.error, attachmentId |-> up.attachmentId]

\* LinkConversionService.generateFinalResults
generateFinalResults(recs, dls, ups) ==
  [i \in 1..Len(recs) |->
     LET hasDl == i <= Len(dls)
         hasUp == i <= Len(ups)
     IN [url |-> recs[i].url, recordId |-> recs[i].recordId,
         fieldId |-> recs[i].fieldId,
         success |-> (hasDl /\ dls[i].success) /\ (hasUp /\ ups[i].success),
         errorMessage |->
           IF hasDl /\ dls[i].error # NoError THEN dls[i].error
           ELSE IF hasUp THEN ups[i].error ELSE NoError,
         attachmentId |-> IF hasUp THEN ups[i].attachmentId ELSE NoAttachment]]

\* A summary that counts every result as failed.
Summary_AllFailed(rs, totalUrls) ==
  [totalUrls |-> totalUrls,
   successfulConversions |-> Cardinality({i \in 1..Len(rs) : rs[i].success}),
   failedConversions |-> Len(rs),
   skippedUrls |-> 0]

\* The summary startConversion builds from the final results.
Summary(rs, totalUrls) ==
  [totalUrls |-> totalUrls,
   successfulConversions |-> Cardinality({i \in 1..Len(rs) : rs[i].success}),
   failedConversions |-> Cardinality({i \in 1..Len(rs) : ~rs[i].success}),
   skippedUrls |-> 0]

\* The record uploadAttachments picks for a download: urlRecords.find by url.
FindRecord(mapping, url) ==
  LET hits == {m \in 1..Len(mapping) : mapping[m].url = url}
  IN IF hits = {} THEN 0 ELSE CHOOSE m \in hits : \A n \in hits : m <= n

\* uploadAttachments after its scanUrls: one uploadFromUrl per successful
\* download, all called in the same turn.
RECURSIVE StartUploads(_, _, _)
StartUploads(W, mapping, i) ==
  IF i > Len(W.downloadResults) THEN W
  ELSE IF ~W.downloadResults[i].success THEN StartUploads(W, mapping, i + 1)
  ELSE LET url == W.downloadResults[i].url
           m == FindRecord(mapping, url)
       IN IF m = 0
          THEN StartUploads([W EXCEPT !.pc = "mapping_failed"], mapping, i + 1)
          ELSE StartUploads(uploadFromUrl(W, url, mapping[m].recordId, i),
                            mapping, i + 1)

uploadAttachments(W, mapping) ==
  LET W1 == StartUploads([W EXCEPT !.pc = "uploading"], mapping, 1)
  IN IF W1.pc = "mapping_failed" THEN Reject(W1, ErrMapping) ELSE W1

\* startConversion after "await this.downloadFiles(urlRecords)".
AfterDownloads(W) ==
  LET dls == [j \in 1..Len(W.jobs) |->
                [url |-> W.jobs[j].url, success |-> W.jobs[j].success,
                 error |-> W.jobs[j].error, fileSize |-> W.jobs[j].fileSize]]
      W1 == updateProgress([W EXCEPT !.downloadResults = dls], "uploading",
                           Len(W.urlRecords))
  IN IF \A j \in 1..Len(dls) : ~dls[j].success
     THEN Resolve(W1, generateFinalResults(W.urlRecords, dls, << >>))
     ELSE [W1 EXCEPT !.pc = "rescan_fields", !.scan = [skip |-> 0, acc |-> << >>]]

\* startConversion after "await this.uploadAttachments(downloadResults)".
AfterUploads(W) ==
  Resolve(W, generateFinalResults(W.urlRecords, W.downloadResults,
                                  [k \in 1..Len(W.uploads) |-> UploadResultOf(W.uploads[k])]))

\* Every continuation a macrotask made runnable: the settled downloads, then
\* startConversion where Promise.all of its stage has resolved.
Continue(W) ==
  LET W1 == Pump(W)
  IN IF W1.pc = "downloading" /\ DownloadsSettled(W1)
     THEN AfterDownloads(W1)
     ELSE IF W1.pc = "uploading" /\ \A k \in 1..Len(W1.uploads) : W1.uploads[k].st = "done"
     THEN AfterUploads(W1)
     ELSE W1

RECURSIVE UrlsOf(_)
UrlsOf(recs) ==
  IF recs = << >> THEN << >> ELSE <<Head(recs).url>> \o UrlsOf(Tail(recs))

\* startConversion after "await this.scanUrls()".
AfterScan(W, recs) ==
  LET W1 == [W EXCEPT !.urlRecords = recs]
  IN IF Len(recs) = 0
     THEN Resolve(W1, << >>)
     ELSE Continue(downloadFiles(
            updateProgress([W1 EXCEPT !.hasServices = TRUE, !.pc = "downloading"],
                           "downloading", Len(recs)),
            UrlsOf(recs), 1))

\* A scan loop that takes a full page for the last one.
AfterPage_StopOnFullPage(W) ==
  LET records == Page(W.scan.skip)
      acc == W.scan.acc \o ScanPage(records)
  IN IF W.pc = "rescan_records" THEN Continue(uploadAttachments(W, acc))
     ELSE AfterScan(W, acc)

\* scanUrls after a page of records has arrived.
AfterPage(W) ==
  LET records == Page(W.scan.skip)
      acc == W.scan.acc \o ScanPage(records)
      rescan == W.pc = "rescan_records"
  IN IF Len(records) = 0 \/ Len(records) < Take
     THEN IF rescan THEN Continue(uploadAttachments(W, acc)) ELSE AfterScan(W, acc)
     ELSE [W EXCEPT !.scan = [skip |-> W.scan.skip + Take, acc |-> acc]]

\* LinkConversionService.cancelConversion
cancelConversion(W) ==
  LET W1 == IF W.hasServices THEN cancelAllUploads(cancelAllDownloads(W)) ELSE W
  IN Continue([W1 EXCEPT !.isConverting = FALSE])


\* ------------------------------------------------------------------ ranking
\* A value of a (number | null)[] is <<n>> for the number n and << >> for null.
Null == << >>

\* values.filter(v => v !== null), as numbers.
RECURSIVE ValidValues(_)
ValidValues(vs) ==
  IF vs = << >> THEN << >>
  ELSE (IF Head(vs) = Null THEN << >> ELSE <<Head(vs)[1]>>) \o ValidValues(Tail(vs))

\* sort((a, b) => b - a): descending, by insertion.
InsertDesc(sorted, v) ==
  LET before == SelectSeq(sorted, LAMBDA x : x >= v)
      after == SelectSeq(sorted, LAMBDA x : x < v)
  IN before \o <<v>> \o after

RECURSIVE SortDesc(_)
SortDesc(ns) ==
  IF ns = << >> THEN << >> ELSE InsertDesc(SortDesc(Tail(ns)), Head(ns))

\* The valueCount map of standardRanking.
ValueCount(ns, v) == Cardinality({i \in 1..Len(ns) : ns[i] = v})

\* A Map<number, number> is a function on the keys set so far.
MapSet(m, key, value) ==
  [k \in DOMAIN m \cup {key} |-> IF k = key THEN value ELSE m[k]]

\* values.map(v => v === null ? 0 : ranks.get(v) ?? 0)
RanksOf(vs, m) ==
  [i \in 1..Len(vs) |->
     IF vs[i] = Null THEN 0
     ELSE IF vs[i][1] \in DOMAIN m THEN m[vs[i][1]] ELSE 0]

\* The loop of standardRanking over sortedValues, i counted from 1.  byCount
\* says that currentRank grows by the count of the value, as the code has it.
RECURSIVE AssignRanks(_, _, _, _, _, _)
AssignRanks(sortedValues, validValues, i, currentRank, m, byCount) ==
  IF i > Len(sortedValues) THEN m
  ELSE LET value == sortedValues[i]
           count == ValueCount(validValues, value)
       IN AssignRanks(sortedValues, validValues, i + count,
                      currentRank + (IF byCount THEN count ELSE 1),
                      MapSet(m, value, currentRank), byCount)

\* A standardRanking whose rank grows by one per distinct value.
standardRanking_StepOne(vs) ==
  LET validValues == ValidValues(vs)
  IN RanksOf(vs, AssignRanks(SortDesc(validValues), validValues, 1, 1, << >>,
                             FALSE))

\* standardRanking
standardRanking(vs) ==
  LET validValues == ValidValues(vs)
  IN RanksOf(vs, AssignRanks(SortDesc(validValues), validValues, 1, 1, << >>,
                             TRUE))

\* [...new Set(numbers)]: the distinct numbers in the order of first occurrence.
RECURSIVE Unique(_)
Unique(ns) ==
  IF ns = << >> THEN << >>
  ELSE LET init == Unique(SubSeq(ns, 1, Len(ns) - 1))
           last == ns[Len(ns)]
       IN IF \E i \in 1..Len(init) : init[i] = last THEN init ELSE Append(init, last)

\* uniqueValues.forEach((value, index) => ranks.set(value, index + offset)),
\* with index counted from 0.
RECURSIVE SetRanks(_, _, _)
SetRanks(uniqueValues, n, offset) ==
  IF n = 0 THEN << >>
  ELSE MapSet(SetRanks(uniqueValues, n - 1, offset), uniqueValues[n], (n - 1) + offset)

\* A denseRanking that ranks from 0.
denseRanking_FromZero(vs) ==
  LET uniqueValues == SortDesc(Unique(ValidValues(vs)))
  IN RanksOf(vs, SetRanks(uniqueValues, Len(uniqueValues), 0))

\* denseRanking
denseRanking(vs) ==
  LET uniqueValues == SortDesc(Unique(ValidValues(vs)))
  IN RanksOf(vs, SetRanks(uniqueValues, Len(uniqueValues), 1))

\* ------------------------------------------------------------------- inputs
ConfigOf(k, r, allowAll, types) ==
  [maxConcurrency |-> k, maxFileSize |-> SizeLimitMB * BytesPerMB,
   retryCount |-> r, retryDelay |-> DownloadRetryDelay,
   allowAllFileTypes |-> allowAll, allowedFileTypes |-> types]

\* The configurations the pool specification constructs a FileDownloader with:
\* every concurrency limit, and with the limit 1 every retry budget and
\* file-type policy.
PoolConfigs ==
  {ConfigOf(k, MaxRetry, FALSE, {"image"}) : k \in 1..MaxK}
  \cup {ConfigOf(1, r, a, {"image", "archive"}) : r \in 0..MaxRetry, a \in BOOLEAN}

\* The url arrays the pool specification passes to downloadFiles.
Batches ==
  {<<UrlJpg>>, <<UrlJpg, UrlPng>>, <<UrlPng, UrlPage>>, <<UrlExe, UrlZip, UrlBad>>}

\* The converter configurations a run is started with.
ConverterConfigs ==
  {[concurrencyLimit |-> k, maxFileSize |-> SizeLimitMB,
    allowAllFileTypes |-> a, allowedFileTypes |-> {"image"}] :
     k \in 1..MaxK, a \in BOOLEAN}

\* LinkConversionService.initializeServices: the IDownloadConfig it builds.
initializeServices(cc) ==
  [maxConcurrency |-> cc.concurrencyLimit,
   maxFileSize |-> cc.maxFileSize * 1024 * 1024,
   retryCount |-> DownloadRetryCount,
   retryDelay |-> DownloadRetryDelay,
   allowAllFileTypes |-> cc.allowAllFileTypes,
   allowedFileTypes |-> cc.allowedFileTypes]

Row(id, cell) == [id |-> id, cell |-> cell]

\* The views a run is started on.
Tables ==
  {<<Row("A", <<UrlJpg>>), Row("B", <<UrlJpg>>), Row("C", << >>)>>,
   <<Row("A", <<UrlExe>>), Row("B", <<UrlPng>>)>>,
   <<Row("A", <<UrlJpg>>), Row("B", <<UrlPng>>), Row("C", <<UrlPage>>)>>,
   <<Row("A", << >>)>>}

RowIds == {"A", "B", "C"}

\* The cell values the scan loop is applied to on its own: up to MaxTextUrls
\* URL texts separated by spaces.
RECURSIVE Texts(_)
Texts(n) ==
  IF n = 0 THEN {<< >>}
  ELSE Texts(n - 1)
       \cup {Append(t, u) : t \in {x \in Texts(n - 1) : Len(x) = n - 1},
                            u \in Urls \cup {UrlWww}}

\* ----------------------------------------------------------------- history
\* Note on every download in flight that a cancel was called on its url, and
\* on every request the cancel aborts that its attempt ends with the abort.
MarkCancel(W, urlSet) ==
  [W EXCEPT !.jobs =
     [j \in 1..Len(W.jobs) |->
        IF /\ W.jobs[j].st \in {"fetching", "reading", "backoff"}
           /\ W.jobs[j].url \in urlSet
           /\ W.jobs[j].cancelledIn = "none"
        THEN [W.jobs[j] EXCEPT
                !.cancelledIn = W.jobs[j].st,
                !.fetchesAtCancel = W.jobs[j].fetches,
                !.lastAttemptError =
                   IF j \in Aborted(W, urlSet) THEN AbortErrorMessage ELSE @]
        ELSE W.jobs[j]]]

\* Note on every upload that has succeeded that it had when the run was
\* cancelled.
MarkUploads(W) ==
  [W EXCEPT !.uploads =
     [k \in 1..Len(W.uploads) |->
        [W.uploads[k] EXCEPT !.okAtCancel = @ \/ (W.uploads[k].st = "done"
                                                  /\ W.uploads[k].success)]]]

\* The fetch and post requests issued so far.
Requests(W) ==
  SumOf([j \in 1..Len(W.jobs) |-> W.jobs[j].fetches], Len(W.jobs))
  + SumOf([k \in 1..Len(W.uploads) |-> W.uploads[k].posts], Len(W.uploads))

NoteError(W, j, message) ==
  [W EXCEPT !.jobs[j].lastAttemptError = message]

NoteSizeError(W, j) ==
  [W EXCEPT !.jobs[j].sizeErrorAt = W.jobs[j].fetches]

\* -------------------------------------------------------------------- Init
IdleService ==
  /\ scan = [skip |-> 0, acc |-> << >>]
  /\ urlRecords = << >>
  /\ downloadResults = << >>
  /\ uploads = << >>
  /\ activeUploads = [u \in Urls |-> NoController]
  /\ uploadQueue = << >>
  /\ currentUploads = 0
  /\ attachments = [r \in RowIds |-> << >>]
  /\ results = << >>
  /\ onErrorCalls = 0
  /\ progress = << >>
  /\ rejection = NoRejection
  /\ lastIndex = <<0, 0>>
  /\ ranks = << >>
  /\ cancelledAt = ""
  /\ requestsAtCancel = 0
  /\ isConverting = FALSE

EmptyPool ==
  /\ jobs = << >>
  /\ downloadQueue = << >>
  /\ currentDownloads = 0
  /\ activeDownloads = [u \in Urls |-> NoController]
  /\ calls = 0
  /\ cancels = 0
  /\ faults = 0

\* A LinkConversionService constructed on a view, before startConversion.
Init ==
  /\ converterConfig \in ConverterConfigs
  /\ config = initializeServices(converterConfig)
  /\ table \in Tables
  /\ pc = "idle"
  /\ hasServices = FALSE
  /\ IdleService
  /\ EmptyPool
  /\ values = << >>

\* A FileDownloader constructed on its own.
PoolInit ==
  /\ config \in PoolConfigs
  /\ converterConfig = [concurrencyLimit |-> 0, maxFileSize |-> 0,
                        allowAllFileTypes |-> FALSE, allowedFileTypes |-> {}]
  /\ table = << >>
  /\ pc = "pool"
  /\ hasServices = TRUE
  /\ IdleService
  /\ EmptyPool
  /\ values = << >>

\* The scan loop of scanUrls on its own, given one page of two rows: a row
\* with a text and a row with an empty cell.
ExtractInit ==
  /\ config \in {ConfigOf(1, 0, FALSE, {"image"})}
  /\ converterConfig = [concurrencyLimit |-> 0, maxFileSize |-> 0,
                        allowAllFileTypes |-> FALSE, allowedFileTypes |-> {}]
  /\ table \in {<<Row("A", t), Row("B", << >>)>> : t \in Texts(MaxTextUrls)}
  /\ pc = "extract"
  /\ hasServices = FALSE
  /\ IdleService
  /\ EmptyPool
  /\ values = << >>

\* The lists of up to n values: numbers 0..MaxValue and null.
RECURSIVE ValueLists(_)
ValueLists(n) ==
  IF n = 0 THEN {<< >>}
  ELSE ValueLists(n - 1)
       \cup {Append(l, v) : l \in {x \in ValueLists(n - 1) : Len(x) = n - 1},
                            v \in {Null} \cup {<<m>> : m \in 0..MaxValue}}

\* A list of values, before a ranking function is called on it.
RankInit ==
  /\ config \in {ConfigOf(1, 0, FALSE, {"image"})}
  /\ converterConfig = [concurrencyLimit |-> 0, maxFileSize |-> 0,
                        allowAllFileTypes |-> FALSE, allowedFileTypes |-> {}]
  /\ table = << >>
  /\ pc = "rank"
  /\ hasServices = FALSE
  /\ IdleService
  /\ EmptyPool
  /\ values \in ValueLists(MaxValues)

\* ----------------------------------------------------------------- actions
FixedInputs == UNCHANGED <<config, converterConfig, table, values>>

\* The service and the pools call extractUrls only, which leaves lastIndex at
\* 0 when it returns.
Fixed == FixedInputs /\ UNCHANGED <<lastIndex, ranks>>

\* The requests of a run of the service fail at most MaxFaults times, and at
\* most MaxFaultsOneRow times when the view has one row; the requests of a pool
\* used on its own fail without bound.
FaultBudget == IF Len(table) = 1 THEN MaxFaultsOneRow ELSE MaxFaults

Fault ==
  /\ pc = "pool" \/ faults < FaultBudget
  /\ faults' = IF pc = "pool" THEN faults ELSE faults + 1

NoFault == faults' = faults

JobIn(states) == {j \in 1..Len(jobs) : jobs[j].st \in states}

\* fetch rejects, or a read of the body rejects, with a network failure.
FetchFail(j, message) ==
  /\ j \in JobIn({"fetching", "reading"})
  /\ Fault
  /\ Become(Continue(Fail(NoteError(World, j, message), j, message)))
  /\ UNCHANGED <<calls, cancels>> /\ Fixed

\* fetch resolves with a response: its status and its content-length header
\* (0 when the header is absent).
FetchRespond(j, status, declared) ==
  /\ j \in JobIn({"fetching"})
  /\ IF status # 200 \/ declared > config.maxFileSize THEN Fault ELSE NoFault
  /\ Become(Continue(
       IF status # 200
       THEN Fail(NoteError(World, j, ErrHttp(status)), j, ErrHttp(status))
       ELSE IF declared # 0 /\ declared > config.maxFileSize
       THEN Fail(NoteSizeError(NoteError(World, j, ErrSizeDeclared), j), j, ErrSizeDeclared)
       ELSE [World EXCEPT !.jobs[j].st = "reading"]))
  /\ UNCHANGED <<calls, cancels>> /\ Fixed

\* reader.read() resolves with a chunk of n bytes.
ReadChunk(j, n) ==
  /\ j \in JobIn({"reading"})
  /\ LET W == [World EXCEPT !.jobs[j].loaded = @ + n]
     IN Become(Continue(
          IF W.jobs[j].loaded > config.maxFileSize
          THEN Fail(NoteSizeError(NoteError(W, j, ErrSizeStream), j), j, ErrSizeStream)
          ELSE W))
  /\ UNCHANGED <<calls, cancels>> /\ NoFault /\ Fixed

\* reader.read() resolves with done.
ReadDone(j) ==
  /\ j \in JobIn({"reading"})
  /\ Become(Continue(Settle(NoteError(World, j, NoError), j, TRUE, NoError,
                             jobs[j].loaded)))
  /\ UNCHANGED <<calls, cancels>> /\ NoFault /\ Fixed

\* The timer of a download's backoff fires.
DelayElapsed(j) ==
  /\ j \in JobIn({"backoff"})
  /\ Become(Continue(RetryDownload(World, j)))
  /\ UNCHANGED <<calls, cancels>> /\ NoFault /\ Fixed

\* What the server of a url can answer.  The server of UrlJpg can do anything;
\* the others answer 200 with an empty body and no content-length, or the
\* connection fails.
OriginErrors(url) == IF url = UrlJpg THEN NetworkErrors ELSE {ErrFailedToFetch}

OriginStatuses(url) == IF url = UrlJpg THEN {200, 404, 503} ELSE {200}

OriginDeclaredMB(url) == IF url = UrlJpg THEN 0..(SizeLimitMB + 1) ELSE {0}

OriginChunksMB(url) == IF url = UrlJpg THEN 1..MaxChunkMB ELSE {}

DownloadEvents ==
  \/ \E j \in 1..Len(jobs) : \E message \in OriginErrors(jobs[j].url) :
       FetchFail(j, message)
  \/ \E j \in 1..Len(jobs) :
       \E status \in OriginStatuses(jobs[j].url), mb \in OriginDeclaredMB(jobs[j].url) :
         FetchRespond(j, status, mb * BytesPerMB)
  \/ \E j \in 1..Len(jobs) : \E mb \in OriginChunksMB(jobs[j].url) :
       ReadChunk(j, mb * BytesPerMB)
  \/ \E j \in 1..Len(jobs) : ReadDone(j)
  \/ \E j \in 1..Len(jobs) : DelayElapsed(j)

\* A caller of the pool calls downloadFiles(urls).
DownloadFilesCall(urls) ==
  /\ calls < MaxCalls
  /\ Len(jobs) + Len(urls) <= MaxJobs
  /\ calls' = calls + 1
  /\ Become(Continue(downloadFiles(World, urls, calls + 1)))
  /\ UNCHANGED cancels /\ NoFault /\ Fixed

\* A caller of the pool calls cancelAllDownloads().
CancelAllDownloadsCall ==
  /\ cancels < MaxCancels
  /\ cancels' = cancels + 1
  /\ Become(Continue(cancelAllDownloads(MarkCancel(World, Urls))))
  /\ UNCHANGED calls /\ NoFault /\ Fixed

\* A caller of the pool calls cancelDownload(url).
CancelDownloadCall(url) ==
  /\ cancels < MaxCancels
  /\ cancels' = cancels + 1
  /\ Become(Continue(cancelDownload(MarkCancel(World, {url}), url)))
  /\ UNCHANGED calls /\ NoFault /\ Fixed

PoolNext ==
  \/ \E urls \in Batches : DownloadFilesCall(urls)
  \/ CancelAllDownloadsCall
  \/ \E j \in 1..Len(jobs) : CancelDownloadCall(jobs[j].url)
  \/ DownloadEvents

PoolSpec == PoolInit /\ [][PoolNext]_vars

\* The check startConversion makes before anything else: it throws
\* 'Conversion is already in progress' exactly when isConverting is set.
startConversionThrows == isConverting

\* startConversion() up to its first await (getFields).
StartConversion ==
  /\ pc = "idle"
  /\ ~startConversionThrows
  /\ Become(updateProgress(
       [World EXCEPT !.isConverting = TRUE, !.pc = "scan_fields",
                     !.scan = [skip |-> 0, acc |-> << >>]], "scanning", 0))
  /\ UNCHANGED <<calls, cancels>> /\ NoFault /\ Fixed

\* openApi.getFields answers (ok) or fails.
GetFieldsRespond(ok) ==
  /\ pc \in {"scan_fields", "rescan_fields"}
  /\ Become(IF ~ok THEN Reject(World, ErrScan)
            ELSE [World EXCEPT !.pc = IF pc = "scan_fields" THEN "scan_records"
                                      ELSE "rescan_records"])
  /\ UNCHANGED <<calls, cancels>> /\ NoFault /\ Fixed

\* openApi.getRecords answers with a page (ok) or fails.
GetRecordsRespond(ok) ==
  /\ pc \in {"scan_records", "rescan_records"}
  /\ Become(IF ~ok THEN Reject(World, ErrScan) ELSE AfterPage(World))
  /\ UNCHANGED <<calls, cancels>> /\ NoFault /\ Fixed

UploadIn(states) == {k \in 1..Len(uploads) : uploads[k].st \in states}

\* axios.post resolves.  kind says what the response holds: "attached" (the
\* record, with the new attachment last in the target field), "nofield" (a
\* record without the target field) or "nodata" (no response data).
PostRespond(k, kind) ==
  /\ k \in UploadIn({"posting"})
  /\ IF kind # "attached" THEN Fault ELSE NoFault
  /\ LET rec == uploads[k].recordId
         att == Append(attachments[rec], uploads[k].url)
     IN Become(Continue(
          CASE kind = "attached" ->
                 UploadSettle([World EXCEPT !.attachments[rec] = att],
                              k, TRUE, NoError, <<rec, Len(att)>>)
            [] kind = "nofield" -> UploadSettle(World, k, TRUE, NoError, NoAttachment)
            [] OTHER -> UploadFail(World, k, ErrNoResponseData)))
  /\ UNCHANGED <<calls, cancels>> /\ Fixed

\* axios.post rejects.
PostFail(k, message) ==
  /\ k \in UploadIn({"posting"})
  /\ Fault
  /\ Become(Continue(UploadFail(World, k, message)))
  /\ UNCHANGED <<calls, cancels>> /\ Fixed

\* The timer of an upload's backoff fires.
UploadDelayElapsed(k) ==
  /\ k \in UploadIn({"backoff"})
  /\ Become(Continue(UploadRetry(World, k)))
  /\ UNCHANGED <<calls, cancels>> /\ NoFault /\ Fixed

\* The user cancels while the run has not settled.
CancelConversion ==
  /\ pc \notin {"idle", "resolved", "rejected"}
  /\ cancels < MaxCancels
  /\ cancels' = cancels + 1
  /\ Become(cancelConversion(
       [MarkUploads(MarkCancel(World, Urls)) EXCEPT !.cancelledAt = pc,
                                       !.requestsAtCancel = Requests(World)]))
  /\ UNCHANGED calls /\ NoFault /\ Fixed

Next ==
  \/ StartConversion
  \/ \E ok \in BOOLEAN : GetFieldsRespond(ok)
  \/ \E ok \in BOOLEAN : GetRecordsRespond(ok)
  \/ DownloadEvents
  \/ \E k \in 1..Len(uploads), kind \in {"attached", "nofield", "nodata"} :
       PostRespond(k, kind)
  \/ \E k \in 1..Len(uploads), message \in UploadErrors : PostFail(k, message)
  \/ \E k \in 1..Len(uploads) : UploadDelayElapsed(k)
  \/ CancelConversion

Spec == Init /\ [][Next]_vars

\* The run when every timer the program sets fires and the host platform
\* answers getFields and getRecords; the remote servers of downloads and
\* uploads may stay silent.
LiveSpec ==
  /\ Init /\ [][Next]_vars
  /\ WF_vars(\E j \in 1..MaxJobs : DelayElapsed(j))
  /\ WF_vars(\E k \in 1..MaxJobs : UploadDelayElapsed(k))
  /\ WF_vars(\E ok \in BOOLEAN : GetFieldsRespond(ok))
  /\ WF_vars(\E ok \in BOOLEAN : GetRecordsRespond(ok))

\* The scan loop runs over the page: extractUrls on every cell, one urlRecord
\* per match.
ScanRecordsCall ==
  /\ pc = "extract"
  /\ Become([World EXCEPT !.pc = "extracted",
                          !.urlRecords = ScanPageAt(table, lastIndex)])
  /\ lastIndex' = IF \A r \in 1..Len(table) : table[r].cell = << >>
                  THEN lastIndex ELSE <<0, 0>>
  /\ UNCHANGED <<calls, cancels, ranks>> /\ NoFault /\ FixedInputs

\* Some caller calls UrlDetector.containsUrl(text) before the scan.
ContainsUrlCall(text) ==
  /\ pc = "extract"
  /\ lastIndex' = containsUrl(text, lastIndex)
  /\ Become(World)
  /\ UNCHANGED <<calls, cancels, ranks>> /\ NoFault /\ FixedInputs

ExtractNext ==
  \/ ScanRecordsCall
  \/ \E text \in Texts(MaxTextUrls) : ContainsUrlCall(text)

ExtractSpec == ExtractInit /\ [][ExtractNext]_vars

\* standardRanking(values) is called.
StandardRankingCall ==
  /\ pc = "rank"
  /\ ranks' = standardRanking(values)
  /\ Become([World EXCEPT !.pc = "standard"])
  /\ UNCHANGED <<calls, cancels, lastIndex>> /\ NoFault /\ FixedInputs

\* denseRanking(values) is called.
DenseRankingCall ==
  /\ pc = "rank"
  /\ ranks' = denseRanking(values)
  /\ Become([World EXCEPT !.pc = "dense"])
  /\ UNCHANGED <<calls, cancels, lastIndex>> /\ NoFault /\ FixedInputs

RankNext == StandardRankingCall \/ DenseRankingCall

RankSpec == RankInit /\ [][RankNext]_vars


\* A LinkConversionService constructed on a view of one row that holds one
\* url.
BackoffInit ==
  /\ converterConfig \in ConverterConfigs
  /\ config = initializeServices(converterConfig)
  /\ table = <<Row("A", <<UrlJpg>>)>>
  /\ pc = "idle"
  /\ hasServices = FALSE
  /\ IdleService
  /\ EmptyPool
  /\ values = << >>

BackoffSpec == BackoffInit /\ [][Next]_vars

\* A view of n rows: the first and the last row of every page of Take rows and
\* the last row of the view hold one url in the selected field, the others
\* hold nothing.
LongTable(n) ==
  [i \in 1..n |->
     Row(i, IF i % Take \in {0, 1} \/ i = n THEN <<UrlJpg>> ELSE << >>)]

\* A LinkConversionService constructed on a view of up to MaxRows rows.
PageInit ==
  /\ converterConfig \in ConverterConfigs
  /\ config = initializeServices(converterConfig)
  /\ table \in {LongTable(n) : n \in 0..MaxRows}
  /\ pc = "idle"
  /\ hasServices = FALSE
  /\ IdleService
  /\ EmptyPool
  /\ values = << >>

\* The run up to the end of scanUrls.
PageNext ==
  \/ StartConversion
  \/ \E ok \in BOOLEAN : GetFieldsRespond(ok)
  \/ \E ok \in BOOLEAN : GetRecordsRespond(ok)

PageSpec == PageInit /\ [][PageNext]_vars

\* ------------------------------------------------------------------ claims
\* The downloads that have been started and have not produced their result.
InFlight == JobIn({"fetching", "reading", "backoff"})

\* C1: in every reachable state of the pool, for every maxConcurrency K >= 1,
\* the downloads that have been started and have not yet produced their
\* result (those waiting in a retry backoff included) number at most K.
C1_AtMostKInFlight ==
  /\ Cardinality(InFlight) <= config.maxConcurrency
  /\ currentDownloads <= config.maxConcurrency

\* K = MaxK downloads are in flight, one of them in its backoff, and a url of
\* a second, overlapping downloadFiles call waits in the queue.
C1_Witness ==
  /\ config.maxConcurrency = MaxK
  /\ Cardinality(InFlight) = MaxK
  /\ JobIn({"backoff"}) # {}
  /\ calls = 2
  /\ Len(downloadQueue) > 0

C7_SizeErrorAfterOneAttempt ==
  \A j \in 1..Len(jobs) :
    /\ jobs[j].sizeErrorAt # 0 =>
         /\ jobs[j].st = "done" /\ ~jobs[j].success
         /\ jobs[j].error \in SizeErrors
         /\ jobs[j].fetches = 1
    /\ jobs[j].st = "done" /\ jobs[j].success =>
         jobs[j].fileSize <= config.maxFileSize

\* C7 as amended: the attempt that meets the size limit is the last attempt
\* of its download (a size failure is never retried), and the download ends
\* with success = false and a file-size error; every successful result has
\* fileSize <= maxFileSize.
C7_SizeErrorNeverRetried ==
  \A j \in 1..Len(jobs) :
    /\ jobs[j].sizeErrorAt # 0 =>
         /\ jobs[j].st = "done" /\ ~jobs[j].success
         /\ jobs[j].error \in SizeErrors
         /\ jobs[j].fetches = jobs[j].sizeErrorAt
    /\ jobs[j].st = "done" /\ jobs[j].success =>
         jobs[j].fileSize <= config.maxFileSize

\* One download failed on a declared length above the limit at its first
\* attempt, another on the bytes it streamed at its second attempt, and their
\* retry budget was not used up.
C7_Witness ==
  /\ config.retryCount >= 1
  /\ \E j \in JobIn({"done"}) :
       jobs[j].error = ErrSizeDeclared /\ jobs[j].fetches = 1
  /\ \E j \in JobIn({"done"}) :
       /\ jobs[j].error = ErrSizeStream /\ jobs[j].fetches = 2
       /\ jobs[j].fetches < 1 + config.retryCount + 1

IsDangerousUrl(url) == extractFileInfo(normalizeUrl(url)).isDangerous

\* C8: under every configuration of the pool, a url whose path extension is
\* on DANGEROUS_FILE_EXTENSIONS is rejected and never fetched.
C8_DangerousNeverFetched ==
  \A j \in 1..Len(jobs) :
    IsDangerousUrl(jobs[j].url) =>
      /\ jobs[j].fetches = 0
      /\ jobs[j].st \in {"queued", "done"}
      /\ jobs[j].st = "done" => ~jobs[j].success

\* C9: a download cancelled by cancelAllDownloads or cancelDownload(url) while
\* it is in flight resolves with success = false and the error of the cancel
\* ("cancelled"; the message of the abort is accepted for it here), and is not
\* fetched again after the cancel.
C9_CancelledNotRetried ==
  \A j \in 1..Len(jobs) :
    jobs[j].cancelledIn \in {"fetching", "reading"} =>
      /\ jobs[j].fetches = jobs[j].fetchesAtCancel
      /\ jobs[j].st = "done" =>
           /\ ~jobs[j].success
           /\ jobs[j].error \in {Cancelled, AbortErrorMessage}


\* The upload of task i (the i-th scanned url) succeeded.
OwnUploadSucceeded(i) ==
  \E k \in 1..Len(uploads) : uploads[k].task = i /\ uploads[k].success

\* C2: every upload is issued against the row its task was discovered in, also
\* when two rows hold the same url, and every final result entry reports an
\* attachment of its own row.
C2_UploadToOwnRow ==
  /\ \A k \in 1..Len(uploads) :
       uploads[k].recordId = urlRecords[uploads[k].task].recordId
  /\ pc = "resolved" =>
       \A i \in 1..Len(results) :
         results[i].attachmentId # NoAttachment =>
           results[i].attachmentId[1] = results[i].recordId

\* C3: after cancelConversion the promise of startConversion settles: a run
\* that was cancelled and has not settled can still take a step; the summary
\* of a cancelled run accounts for every scanned task and reports every task
\* whose upload had succeeded before the cancel as succeeded.
C3_CancelledRunSettles ==
  cancelledAt # "" =>
    /\ pc \in {"resolved", "rejected"} \/ ENABLED Next
    /\ pc = "resolved" =>
         /\ Len(results) = Len(urlRecords)
         /\ \A k \in 1..Len(uploads) :
              uploads[k].okAtCancel => results[uploads[k].task].success

\* C4: at no point are more upload requests in flight than the maxConcurrency
\* of the upload pool.
C4_UploadsWithinLimit ==
  Cardinality(UploadIn({"posting"})) <= uploaderConfig.maxConcurrency

\* C5: results[i].success is true exactly when the download of task i and the
\* upload of task i both succeeded, and successfulConversions counts these
\* tasks.
C5_PairedByTask ==
  pc = "resolved" =>
    /\ \A i \in 1..Len(results) :
         results[i].success <=> (jobs[i].success /\ OwnUploadSucceeded(i))
    /\ Summary(results, Len(urlRecords)).successfulConversions =
         Cardinality({i \in 1..Len(urlRecords) :
                        jobs[i].success /\ OwnUploadSucceeded(i)})

\* C10: once cancelConversion has been called, the run issues no fetch and no
\* upload request.
C10_NoRequestAfterCancel ==
  cancelledAt # "" => Requests(World) = requestsAtCancel

\* C11: once the downloading stage has begun startConversion never rejects:
\* a run is rejected only by a failure of the scanning stage, and a run that
\* has submitted its downloads and has ended has resolved.
C11_NoRejectAfterScan ==
  /\ pc = "rejected" => rejection.at \in {"scan_fields", "scan_records"}
  /\ Len(jobs) > 0 => pc # "rejected"

UploadRetryable == {ErrStatus503, ErrStatus501, ErrAxiosTimeout}

\* C13: an upload that fails with a 5xx response or a timeout is retried up to
\* retryCount times (it ends in failure only with its budget used up), a 4xx
\* failure is never retried, and an upload that succeeds after k failures has
\* made exactly k + 1 requests, at most 1 + retryCount.
C13_UploadRetry ==
  \A k \in 1..Len(uploads) :
    /\ uploads[k].posts <= 1 + uploaderConfig.retryCount
    /\ uploads[k].posts = 1 + uploads[k].retryCount
    /\ uploads[k].st = "backoff" => uploads[k].error # ErrStatus404
    /\ (uploads[k].st = "done" /\ uploads[k].error \in UploadRetryable) =>
         uploads[k].posts = 1 + uploaderConfig.retryCount

\* C14: a download answered with a 5xx status is retried up to retryCount
\* times (it ends with that failure only with its budget used up), and a
\* download answered with a non-5xx failure status is never retried.
C14_Http5xxRetried ==
  \A j \in 1..Len(jobs) :
    /\ jobs[j].st = "backoff" => jobs[j].lastAttemptError # ErrHttp(404)
    /\ (jobs[j].st = "done" /\ jobs[j].error = ErrHttp(503)) =>
         jobs[j].fetches = 1 + config.retryCount

\* The url has an extension that is dangerous or in no allowed category.
DisallowedType(url) ==
  LET info == extractFileInfo(normalizeUrl(url))
  IN /\ ~info.none
     /\ info.extension # ""
     /\ \/ info.extension \in DANGEROUS_FILE_EXTENSIONS
        \/ \A t \in config.allowedFileTypes :
             info.extension \notin FILE_TYPE_EXTENSIONS[t]

\* C15: with allowAllFileTypes = false, a (valid) url whose extension is
\* dangerous or in no category of allowedFileTypes is never fetched and never
\* retried, and its download ends with success = false and the file-type
\* error; a url without a path extension never gets the file-type error and
\* is fetched once its download starts.
C15_DisallowedTypeNotFetched ==
  ~config.allowAllFileTypes =>
    \A j \in 1..Len(jobs) :
      LET u == normalizeUrl(jobs[j].url)
      IN /\ (isValidUrl(u) /\ DisallowedType(jobs[j].url)) =>
              /\ jobs[j].fetches = 0
              /\ jobs[j].retryCount = 0
              /\ jobs[j].st \in {"queued", "done"}
              /\ jobs[j].st = "done" =>
                   ~jobs[j].success /\ jobs[j].error = ErrFileType
         /\ (isValidUrl(u) /\ extractFileInfo(u).none) =>
              /\ jobs[j].error # ErrFileType
              /\ jobs[j].st # "queued" => jobs[j].fetches >= 1

\* With only images allowed, the download of a dangerous url (setup.EXE) and
\* the download of an archive (c.tar.zip) have ended with the file-type error.
C15_Witness ==
  /\ ~config.allowAllFileTypes
  /\ config.allowedFileTypes = {"image"}
  /\ \E j \in JobIn({"done"}) : jobs[j].url = UrlExe /\ jobs[j].error = ErrFileType
  /\ \E j \in JobIn({"done"}) : jobs[j].url = UrlZip /\ jobs[j].error = ErrFileType

\* C16: the summary of every resolved run has successfulConversions +
\* failedConversions + skippedUrls = totalUrls; results holds one entry per
\* scanned task, in scan order, with the task's url, recordId and fieldId;
\* and every task has been processed: each download has ended, and each
\* successful download has been handed to an upload, whichever tasks failed.
C16_SummaryAccounts ==
  pc = "resolved" =>
    LET summary == Summary(results, Len(urlRecords))
    IN /\ summary.successfulConversions + summary.failedConversions
            + summary.skippedUrls = summary.totalUrls
       /\ urlRecords = ScanPage(table)
       /\ Len(results) = Len(urlRecords)
       /\ \A i \in 1..Len(results) :
            /\ results[i].url = urlRecords[i].url
            /\ results[i].recordId = urlRecords[i].recordId
            /\ results[i].fieldId = urlRecords[i].fieldId
       /\ Len(jobs) = Len(urlRecords)
       /\ \A j \in 1..Len(jobs) :
            /\ jobs[j].st = "done"
            /\ jobs[j].success => \E k \in 1..Len(uploads) : uploads[k].task = j

\* A run has resolved with one task reported as succeeded and another as
\* failed.
C16_Witness ==
  /\ pc = "resolved"
  /\ \E i \in 1..Len(results) : results[i].success
  /\ \E i \in 1..Len(results) : ~results[i].success

\* C17: an upload result has success = true only if the record the host
\* platform returned holds an attachment entry in the target field, and then
\* it carries the id of that entry: an attachment of the upload's record that
\* holds the upload's url.
C17_SuccessHasAttachment ==
  \A k \in 1..Len(uploads) :
    (uploads[k].st = "done" /\ uploads[k].success) =>
      /\ uploads[k].attachmentId # NoAttachment
      /\ uploads[k].attachmentId[1] = uploads[k].recordId
      /\ uploads[k].attachmentId[2] \in 1..Len(attachments[uploads[k].recordId])
      /\ attachments[uploads[k].recordId][uploads[k].attachmentId[2]] = uploads[k].url

\* The transitions of the run's state machine.
StageTransitions ==
  {<<"scanning", "downloading">>, <<"downloading", "uploading">>,
   <<"uploading", "completed">>,
   <<"scanning", "error">>, <<"downloading", "error">>, <<"uploading", "error">>}

\* C18: the stages passed to onProgress in one run start with scanning and
\* follow scanning -> downloading -> uploading -> completed | error, each step
\* forward; downloading is reported with the complete task list of the scan
\* and before any fetch, and uploading when every download has resolved.
C18_StageOrder ==
  /\ Len(progress) > 0 => progress[1].stage = "scanning"
  /\ pc \in {"scan_fields", "scan_records"} => Len(progress) = 1
  /\ \A i \in 1..(Len(progress) - 1) :
       <<progress[i].stage, progress[i + 1].stage>> \in StageTransitions
  /\ \A i \in 1..Len(progress) :
       /\ progress[i].stage = "downloading" =>
            /\ progress[i].totalUrls = Len(ScanPage(table))
            /\ progress[i].fetches = 0
       /\ progress[i].stage = "uploading" =>
            /\ progress[i].unsettled = 0
            /\ progress[i].totalUrls = Len(urlRecords)
            /\ \A k \in 1..Len(uploads) : uploads[k].task \in 1..Len(jobs)

\* A run with several tasks, one of them failed in its download, has reported
\* scanning, downloading and uploading, and has started an upload.
C18_Witness ==
  /\ Len(progress) = 3
  /\ progress[3].stage = "uploading"
  /\ progress[3].totalUrls >= 2
  /\ \E j \in 1..Len(jobs) : ~jobs[j].success
  /\ Len(uploads) > 0

\* C19: a run that has settled has emitted a terminal progress event: the
\* last stage passed to onProgress is completed, with the final counts, when
\* startConversion resolved (also with zero urls), and error when it rejected.
C19_TerminalProgressEvent ==
  /\ pc = "resolved" =>
       /\ Len(progress) > 0
       /\ progress[Len(progress)].stage = "completed"
  /\ pc = "rejected" =>
       /\ Len(progress) > 0
       /\ progress[Len(progress)].stage = "error"

\* The URL occurrences of a cell: its texts that are http(s) URLs or start
\* with "www.".
RECURSIVE UrlOccurrences(_)
UrlOccurrences(cell) ==
  IF cell = << >> THEN 0
  ELSE (IF Head(cell).scheme \in {"http", "https"} \/ Head(cell).www THEN 1 ELSE 0)
       + UrlOccurrences(Tail(cell))

\* C20: the scan creates exactly one task per URL occurrence of a cell, also
\* for URLs of the form http(s)://www.host/path, and none for a row without a
\* URL.
C20_OneTaskPerUrl ==
  pc = "extracted" =>
    \A r \in 1..Len(table) :
      Cardinality({i \in 1..Len(urlRecords) : urlRecords[i].recordId = table[r].id})
        = UrlOccurrences(table[r].cell)

\* C21: extractUrls is a pure function of its argument: whatever calls of
\* containsUrl were made before, the scan of a page yields the matches that
\* extractUrls gives for each cell when nothing was called before.
C21_ExtractUrlsPure ==
  pc = "extracted" => urlRecords = ScanPage(table)

\* The positions of the list that hold a number.
NonNull == {i \in 1..Len(values) : values[i] # Null}

C25_UploadAfterOwnDownload ==
  /\ \A k \in 1..Len(uploads) : \A i \in 1..Len(urlRecords) :
       (urlRecords[i].recordId = uploads[k].recordId
        /\ urlRecords[i].url = uploads[k].url) =>
         (i <= Len(jobs) /\ jobs[i].st = "done" /\ jobs[i].success)
  /\ \A k, l \in 1..Len(uploads) : uploads[k].task = uploads[l].task => k = l

\* C26: while an attempt of a download is fetching or reading its body (the
\* first attempt or a retry, also when two workers download the same url), the
\* abort controller of that attempt is the one registered in activeDownloads
\* under its url, and getDownloadStatus().activeDownloads (the size of the map)
\* equals the number of such attempts.
C26_AttemptRegistered ==
  /\ \A j \in JobIn({"fetching", "reading"}) :
       activeDownloads[jobs[j].url] = <<j, jobs[j].retryCount>>
  /\ Cardinality({u \in Urls : activeDownloads[u] # NoController}) =
       Cardinality(JobIn({"fetching", "reading"}))

\* The promise of a startConversion call has not settled.
RunPending == pc \notin {"idle", "resolved", "rejected"}

\* C27: while an earlier startConversion on the instance has not settled, also
\* after cancelConversion was called on it, a startConversion call throws
\* 'Conversion is already in progress'; once the run has resolved or rejected
\* a new run is accepted.
C27_SingleRun ==
  /\ RunPending => startConversionThrows
  /\ pc \in {"resolved", "rejected"} => ~startConversionThrows

\* C28: without any cancellation, a run that has admitted downloads or uploads
\* to its pools eventually settles, also when a remote server never answers:
\* the configured timeout ends a request that gets no response.
C28_RequestsTimeOut ==
  (pc \in {"downloading", "uploading"}) ~>
    (pc \in {"resolved", "rejected"} \/ cancelledAt # "")

Exponential(delays, base, retries, waiting, attempts) ==
  /\ Len(delays) = retries + (IF waiting THEN 1 ELSE 0)
  /\ \A n \in 1..Len(delays) :
       /\ n = 1 => delays[n] = base
       /\ n > 1 => delays[n] = 2 * delays[n - 1]
  /\ attempts <= 1 + retries

\* C30: in both pools the delay waited before the k-th retry of a task is
\* retryDelay * 2^(k-1) of that pool's own retryDelay (1000 ms for downloads,
\* 2000 ms for uploads), and an attempt is made only after the delay before it
\* has elapsed.
C30_ExponentialBackoff ==
  /\ \A j \in 1..Len(jobs) :
       Exponential(jobs[j].delays, DownloadRetryDelay, jobs[j].retryCount,
                   jobs[j].st = "backoff", jobs[j].fetches)
  /\ \A k \in 1..Len(uploads) :
       Exponential(uploads[k].delays, UploadRetryDelay, uploads[k].retryCount,
                   uploads[k].st = "backoff", uploads[k].posts)

\* A download has been retried after 1000 and after 2000 ms, and the upload of
\* its file is retried after 2000 ms.
C30_Witness ==
  /\ \E j \in 1..Len(jobs) :
       jobs[j].delays = <<1000, 2000>> /\ jobs[j].fetches = 3
  /\ \E k \in 1..Len(uploads) :
       uploads[k].delays = <<2000>> /\ uploads[k].posts = 2

====
